---------------------------- MODULE Spec2Model ----------------------------
(***************************************************************************)
(* Clock-tree configuration of STM32 L4/L5/G0/G4 (src/clocks/l_g.rs).      *)
(*                                                                         *)
(* The build-time feature (l4, l4 with l4x5/l4x6, l5, g0, g4) is the       *)
(* variable `family`, fixed by Init.  A Configuration (struct Clocks) is   *)
(* the record `cfg`.  The RCC and FLASH register blocks are the records    *)
(* `rcc` and `flash`, one field per register bit-field the code touches.   *)
(* Each operation of impl Clocks is the straight-line sequence of register *)
(* accesses its code performs for the Configuration it is called on        *)
(* (`prog`), executed one access per step (`pc`); a busy-poll              *)
(* `while flag {}` is a step enabled only once the flag has the value the  *)
(* loop waits for.  `log` records the accesses the running operation has   *)
(* performed so far.                                                       *)
(***************************************************************************)
EXTENDS Integers, Sequences, FiniteSets, TLC

VARIABLES family, cfg, rcc, flash, op, prog, pc, log, result, ops, setupOk, rcc0, flash0, cfg0, ret

vars == <<family, cfg, rcc, flash, op, prog, pc, log, result, ops, setupOk, rcc0, flash0, cfg0, ret>>

(***************************************************************************)
(* Bounds of the model.                                                    *)
(***************************************************************************)
\* Number of operation calls and low-power wakes in one run.
MaxOps == 4

(***************************************************************************)
(* Build features.                                                         *)
(***************************************************************************)
Families == {"l4", "l4x6", "l5", "g0", "g4"}

\* cfg(feature = "l4"): "l4x6" is an l4 build that also has l4x5 / l4x6.
FeatL4(fam) == fam \in {"l4", "l4x6"}

\* cfg(any(feature = "l4", feature = "l5")) == cfg(not(any(g0, g4)))
FeatL(fam) == fam \in {"l4", "l4x6", "l5"}

\* cfg(any(feature = "l4x5", feature = "l4x6"))
FeatSai2(fam) == fam = "l4x6"

(***************************************************************************)
(* Enumerations.  A divider or prescaler is held by its decoded value; its *)
(* register bit pattern is given by the *_bits operators.                  *)
(***************************************************************************)
\* enum MsiRange, by bit pattern (R100k = 0 .. R48M = 11).
MsiRange == 0 .. 11

R4M == 6

R48M == 11

\* Faulty variant: the top range is taken for twice its frequency.
MsiRange_value_top_doubled(range) ==
    CASE range = 0 -> 100000
      [] range = 1 -> 200000
      [] range = 2 -> 400000
      [] range = 3 -> 800000
      [] range = 4 -> 1000000
      [] range = 5 -> 2000000
      [] range = 6 -> 4000000
      [] range = 7 -> 8000000
      [] range = 8 -> 16000000
      [] range = 9 -> 24000000
      [] range = 10 -> 32000000
      [] range = 11 -> 96000000

MsiRange_value(range) ==
    CASE range = 0 -> 100000
      [] range = 1 -> 200000
      [] range = 2 -> 400000
      [] range = 3 -> 800000
      [] range = 4 -> 1000000
      [] range = 5 -> 2000000
      [] range = 6 -> 4000000
      [] range = 7 -> 8000000
      [] range = 8 -> 16000000
      [] range = 9 -> 24000000
      [] range = 10 -> 32000000
      [] range = 11 -> 48000000

\* enum PllSrc: None | Msi(range) | Hsi | Hse(freq)
PllSrc_None == [kind |-> "None", val |-> 0]

PllSrc_Msi(range) == [kind |-> "Msi", val |-> range]

PllSrc_Hsi == [kind |-> "Hsi", val |-> 0]

PllSrc_Hse(freq) == [kind |-> "Hse", val |-> freq]

PllSrc_bits(pll_src) ==
    CASE pll_src.kind = "None" -> 0
      [] pll_src.kind = "Msi" -> 1
      [] pll_src.kind = "Hsi" -> 2
      [] pll_src.kind = "Hse" -> 3

\* enum InputSrc: Msi(range) | Hsi | Hse(freq) | Pll(PllSrc) | Lsi | Lse
NoPll == [kind |-> "NA", val |-> 0]

InputSrc_Msi(range) == [kind |-> "Msi", val |-> range, pll |-> NoPll]

InputSrc_Hsi == [kind |-> "Hsi", val |-> 0, pll |-> NoPll]

InputSrc_Hse(freq) == [kind |-> "Hse", val |-> freq, pll |-> NoPll]

InputSrc_Pll(pll_src) == [kind |-> "Pll", val |-> 0, pll |-> pll_src]

InputSrc_Lsi == [kind |-> "Lsi", val |-> 0, pll |-> NoPll]

InputSrc_Lse == [kind |-> "Lse", val |-> 0, pll |-> NoPll]

InputSrc_bits(fam, input_src) ==
    IF fam = "g0"
    THEN CASE input_src.kind = "Hsi" -> 0
           [] input_src.kind = "Hse" -> 1
           [] input_src.kind = "Pll" -> 2
           [] input_src.kind = "Lsi" -> 3
           [] input_src.kind = "Lse" -> 4
    ELSE CASE input_src.kind = "Msi" -> 0
           [] input_src.kind = "Hsi" -> 1
           [] input_src.kind = "Hse" -> 2
           [] input_src.kind = "Pll" -> 3

\* enum Pllm: DivN = N - 1 on every family.
Pllm_bits(pllm) == pllm - 1

\* enum Pllr: g0 has Div2..Div8 with the pattern 0b100 skipped, the others Div2/4/6/8.
Pllr_bits(fam, pllr) ==
    IF fam = "g0"
    THEN CASE pllr = 2 -> 0
           [] pllr = 3 -> 1
           [] pllr = 4 -> 2
           [] pllr = 5 -> 3
           [] pllr = 6 -> 5
           [] pllr = 7 -> 6
           [] pllr = 8 -> 7
    ELSE CASE pllr = 2 -> 0
           [] pllr = 4 -> 1
           [] pllr = 6 -> 2
           [] pllr = 8 -> 3

HclkPrescaler_bits(p) ==
    CASE p = 1 -> 0
      [] p = 2 -> 8
      [] p = 4 -> 9
      [] p = 8 -> 10
      [] p = 16 -> 11
      [] p = 64 -> 12
      [] p = 128 -> 13
      [] p = 256 -> 14
      [] p = 512 -> 15

ApbPrescaler_bits(p) ==
    CASE p = 1 -> 0
      [] p = 2 -> 4
      [] p = 4 -> 5
      [] p = 8 -> 6
      [] p = 16 -> 7

\* enum Clk48Src
Clk48Src_bits(s) ==
    CASE s = "Hsi48" -> 0
      [] s = "PllSai1" -> 1
      [] s = "Pllq" -> 2
      [] s = "Msi" -> 3

\* enum StopWuck
StopWuck_bits(s) == IF s = "Hsi" THEN 1 ELSE 0

(***************************************************************************)
(* Frequency calculator.  u32 arithmetic: the product wraps modulo 2^32.   *)
(***************************************************************************)
\* ((q * n) mod 2^32) / r for q < 2^31, n < 256, r >= 2, on 16-bit limbs.
U32MulDiv(q, n, r) ==
    LET lo == (q % 65536) * n
        hi == ((q \div 65536) * n + lo \div 65536) % 65536
        l  == lo % 65536
    IN  (hi \div r) * 65536 + ((hi % r) * 65536 + l) \div r

calc_input_freq(input_src) ==
    CASE input_src.kind = "Pll" ->
            (CASE input_src.pll.kind = "Msi" -> MsiRange_value(input_src.pll.val)
               [] input_src.pll.kind = "Hsi" -> 16000000
               [] input_src.pll.kind = "Hse" -> input_src.pll.val
               [] input_src.pll.kind = "None" -> 0)
      [] input_src.kind = "Msi" -> MsiRange_value(input_src.val)
      [] input_src.kind = "Hsi" -> 16000000
      [] input_src.kind = "Hse" -> input_src.val
      [] input_src.kind = "Lsi" -> 32000
      [] input_src.kind = "Lse" -> 32768

calc_sysclock(input_src, pllm, plln, pllr) ==
    IF input_src.kind = "Pll"
    THEN U32MulDiv(calc_input_freq(input_src) \div pllm, plln, pllr)
    ELSE calc_input_freq(input_src)

sysclk(c) == calc_sysclock(c.input_src, c.pllm, c.plln, c.pllr)

hclk(c) == sysclk(c) \div c.hclk_prescaler

apb1(c) == hclk(c) \div c.apb1_prescaler

apb2(c) == hclk(c) \div c.apb2_prescaler

systick(c) == hclk(c)

\* Faulty variant: the timer clock is never doubled.
apb1_timer_same(c) == apb1(c)

apb1_timer(c) == IF c.apb1_prescaler = 1 THEN apb1(c) ELSE apb1(c) * 2

apb2_timer(c) == IF c.apb2_prescaler = 1 THEN apb2(c) ELSE apb2(c) * 2

usb(c) == 48000000

\* The queries of the ClockCfg trait.
Queries == {"sysclk", "hclk", "systick", "usb", "apb1", "apb1_timer", "apb2", "apb2_timer"}

\* Query q ends in unimplemented!() for this build feature and Configuration.
unimplemented(fam, c, q) ==
    \/ fam = "g0" /\ q \in {"usb", "apb2", "apb2_timer"}
    \/ FeatL(fam) /\ q = "usb" /\ c.clk48_src # "Hsi48"

query(c, q) ==
    CASE q = "sysclk" -> sysclk(c)
      [] q = "hclk" -> hclk(c)
      [] q = "systick" -> systick(c)
      [] q = "usb" -> usb(c)
      [] q = "apb1" -> apb1(c)
      [] q = "apb1_timer" -> apb1_timer(c)
      [] q = "apb2" -> apb2(c)
      [] q = "apb2_timer" -> apb2_timer(c)

\* The u32 product input_freq / pllm * plln passes 2^32 - 1.
calc_sysclock_overflows(input_src, pllm, plln) ==
    /\ input_src.kind = "Pll"
    /\ LET q  == calc_input_freq(input_src) \div pllm
           lo == (q % 65536) * plln
       IN  (q \div 65536) * plln + lo \div 65536 >= 65536

(***************************************************************************)
(* Configuration validator.                                                *)
(***************************************************************************)
max_clock(fam) ==
    CASE FeatL4(fam) -> 80000000
      [] fam = "l5" -> 110000000
      [] fam = "g0" -> 64000000
      [] fam = "g4" -> 170000000


\* Faulty variant: the bounds of the range are exclusive.
plln_out_of_range_exclusive(fam, c) ==
    CASE FeatL(fam) ->
            \/ c.plln <= 7
            \/ c.plln >= 86
            \/ c.pll_sai1_mul <= 7
            \/ c.pll_sai1_mul >= 86
            \/ c.pll_sai2_mul <= 7
            \/ c.pll_sai2_mul >= 86
      [] fam = "g0" -> c.plln <= 9 \/ c.plln >= 86
      [] fam = "g4" -> c.plln <= 8 \/ c.plln >= 127

plln_out_of_range(fam, c) ==
    CASE FeatL(fam) ->
            \/ c.plln < 7
            \/ c.plln > 86
            \/ c.pll_sai1_mul < 7
            \/ c.pll_sai1_mul > 86
            \/ c.pll_sai2_mul < 7
            \/ c.pll_sai2_mul > 86
      [] fam = "g0" -> c.plln < 9 \/ c.plln > 86
      [] fam = "g4" -> c.plln < 8 \/ c.plln > 127


\* Faulty variant: a frequency equal to the ceiling is rejected.
validate_speeds_strict(fam, c) ==
    IF plln_out_of_range(fam, c)
    THEN "NotValid"
    ELSE IF \/ sysclk(c) >= max_clock(fam)
            \/ hclk(c) >= max_clock(fam)
            \/ apb1(c) >= max_clock(fam)
            \/ (fam # "g0" /\ apb2(c) >= max_clock(fam))
         THEN "NotValid"
         ELSE "Valid"

\* Faulty variant: only the bus frequencies are compared with the ceiling.
validate_speeds_buses_only(fam, c) ==
    IF plln_out_of_range(fam, c)
    THEN "NotValid"
    ELSE IF \/ hclk(c) > max_clock(fam)
            \/ apb1(c) > max_clock(fam)
            \/ (fam # "g0" /\ apb2(c) > max_clock(fam))
         THEN "NotValid"
         ELSE "Valid"

validate_speeds(fam, c) ==
    IF plln_out_of_range(fam, c)
    THEN "NotValid"
    ELSE IF \/ sysclk(c) > max_clock(fam)
            \/ hclk(c) > max_clock(fam)
            \/ apb1(c) > max_clock(fam)
            \/ (fam # "g0" /\ apb2(c) > max_clock(fam))
         THEN "NotValid"
         ELSE "Valid"

(***************************************************************************)
(* Wait-state selector (the latency code setup writes to FLASH_ACR).       *)
(***************************************************************************)

\* Faulty variant: a frequency equal to a breakpoint gets the higher code.
wait_state_exclusive(fam, f) ==
    CASE FeatL4(fam) ->
            (IF f < 16000000 THEN 0
             ELSE IF f < 32000000 THEN 1
             ELSE IF f < 48000000 THEN 2
             ELSE IF f < 64000000 THEN 3
             ELSE 4)
      [] fam = "l5" ->
            (IF f < 20000000 THEN 0
             ELSE IF f < 40000000 THEN 1
             ELSE IF f < 60000000 THEN 2
             ELSE IF f < 80000000 THEN 3
             ELSE IF f < 100000000 THEN 4
             ELSE 5)
      [] fam = "g0" ->
            (IF f < 24000000 THEN 0
             ELSE IF f < 48000000 THEN 1
             ELSE 2)
      [] fam = "g4" ->
            (IF f < 34000000 THEN 0
             ELSE IF f < 68000000 THEN 1
             ELSE IF f < 102000000 THEN 2
             ELSE IF f < 136000000 THEN 3
             ELSE 4)

wait_state(fam, f) ==
    CASE FeatL4(fam) ->
            (IF f <= 16000000 THEN 0
             ELSE IF f <= 32000000 THEN 1
             ELSE IF f <= 48000000 THEN 2
             ELSE IF f <= 64000000 THEN 3
             ELSE 4)
      [] fam = "l5" ->
            (IF f <= 20000000 THEN 0
             ELSE IF f <= 40000000 THEN 1
             ELSE IF f <= 60000000 THEN 2
             ELSE IF f <= 80000000 THEN 3
             ELSE IF f <= 100000000 THEN 4
             ELSE 5)
      [] fam = "g0" ->
            (IF f <= 24000000 THEN 0
             ELSE IF f <= 48000000 THEN 1
             ELSE 2)
      [] fam = "g4" ->
            (IF f <= 34000000 THEN 0
             ELSE IF f <= 68000000 THEN 1
             ELSE IF f <= 102000000 THEN 2
             ELSE IF f <= 136000000 THEN 3
             ELSE 4)

(***************************************************************************)
(* Default Configuration.  Fields a family does not have keep a fixed      *)
(* value and are never read for that family.                               *)
(***************************************************************************)
\* Faulty variant: the L5 default multiplier is one step higher.
default_plln_high(fam) ==
    CASE FeatL4(fam) -> 20
      [] fam = "l5" -> 28
      [] fam = "g0" -> 16
      [] fam = "g4" -> 42

default_plln(fam) ==
    CASE FeatL4(fam) -> 20
      [] fam = "l5" -> 27
      [] fam = "g0" -> 16
      [] fam = "g4" -> 42

Clocks_default(fam) ==
    [ input_src       |-> InputSrc_Pll(PllSrc_Hsi),
      pllm            |-> 2,
      plln            |-> default_plln(fam),
      pll_sai1_mul    |-> 8,
      pll_sai2_mul    |-> 8,
      pllr            |-> 2,
      hclk_prescaler  |-> 1,
      apb1_prescaler  |-> 1,
      apb2_prescaler  |-> 1,
      clk48_src       |-> IF FeatL(fam) THEN "Msi" ELSE "Hsi48",
      sai1_enabled    |-> FALSE,
      sai2_enabled    |-> FALSE,
      hse_bypass      |-> FALSE,
      security_system |-> FALSE,
      hsi48_on        |-> FALSE,
      stop_wuck       |-> "Msi" ]


(***************************************************************************)
(* Register accesses.  A write is one `modify` call: the fields it sets,   *)
(* all at once.  A poll is one `while flag {}` loop: it completes when the *)
(* flag is read with value `val`.                                          *)
(***************************************************************************)
NoFields == [k \in {} |-> FALSE]

W(fields) == [op |-> "write", f |-> fields, flag |-> "", val |-> FALSE]

FW(fields) == [op |-> "fwrite", f |-> fields, flag |-> "", val |-> FALSE]

Poll(flg, v) == [op |-> "poll", f |-> NoFields, flag |-> flg, val |-> v]

SetInputSrc(src) == [op |-> "setcfg", f |-> [input_src |-> src], flag |-> "", val |-> FALSE]

Panic == [op |-> "panic", f |-> NoFields, flag |-> "", val |-> FALSE]

Merge(r1, r2) ==
    [k \in (DOMAIN r1) \cup (DOMAIN r2) |-> IF k \in DOMAIN r2 THEN r2[k] ELSE r1[k]]

Only(cond, s) == IF cond THEN s ELSE << >>

(***************************************************************************)
(* Clocks::setup, after validation has passed.                             *)
(***************************************************************************)
\* Flash wait states from hclk, written first.
setup_flash(fam, c) ==
    << FW([latency |-> wait_state(fam, sysclk(c) \div c.hclk_prescaler)]) >>

\* InputSrc::Msi(range): MSI off, wait, range + on, wait.
setup_InputSrc_Msi(range) ==
    << W([msion |-> FALSE]),
       Poll("msirdy", FALSE),
       W([msirange |-> range, msirgsel |-> TRUE, msion |-> TRUE]),
       Poll("msirdy", TRUE) >>

\* PllSrc::Msi(range): range + on in one write, wait.
setup_PllSrc_Msi(range) ==
    << W([msirange |-> range, msirgsel |-> TRUE, msion |-> TRUE]),
       Poll("msirdy", TRUE) >>


\* Faulty variant: HSE is enabled but not waited for.
setup_Hse_nowait == << W([hseon |-> TRUE]) >>

setup_Hse == << W([hseon |-> TRUE]), Poll("hserdy", TRUE) >>

setup_Hsi == << W([hsion |-> TRUE]), Poll("hsirdy", TRUE) >>

setup_Lsi == << W([lsion |-> TRUE]), Poll("lsirdy", TRUE) >>

setup_Lse == << W([lseon |-> TRUE]), Poll("lserdy", TRUE) >>

\* "Enable oscillators, and wait until ready": match self.input_src
setup_oscillators(c) ==
    CASE c.input_src.kind = "Msi" -> setup_InputSrc_Msi(c.input_src.val)
      [] c.input_src.kind = "Hse" -> setup_Hse
      [] c.input_src.kind = "Hsi" -> setup_Hsi
      [] c.input_src.kind = "Pll" ->
            (CASE c.input_src.pll.kind = "Msi" -> setup_PllSrc_Msi(c.input_src.pll.val)
               [] c.input_src.pll.kind = "Hse" -> setup_Hse
               [] c.input_src.pll.kind = "Hsi" -> setup_Hsi
               [] c.input_src.pll.kind = "None" -> << >>)
      [] c.input_src.kind = "Lsi" -> setup_Lsi
      [] c.input_src.kind = "Lse" -> setup_Lse

setup_hsebyp(c) == << W([hsebyp |-> c.hse_bypass]) >>


\* Faulty variant: the PLL is turned off but PLLRDY is not waited for.
setup_pll_off_nowait == << W([pllon |-> FALSE]) >>

\* Turn the PLL off and wait until it is no longer ready.
setup_pll_off == << W([pllon |-> FALSE]), Poll("pllrdy", FALSE) >>

\* pllcfgr (g0: pllsyscfgr): source, multiplier, dividers; then the SAI multipliers.
setup_pll_cfg(fam, c) ==
    << W([ pllsrc |-> PllSrc_bits(c.input_src.pll),
           plln   |-> c.plln,
           pllm   |-> Pllm_bits(c.pllm),
           pllr   |-> Pllr_bits(fam, c.pllr) ]) >>
    \o Only(FeatL(fam) /\ c.sai1_enabled, << W([pllsai1n |-> c.pll_sai1_mul]) >>)
    \o Only(FeatSai2(fam) /\ c.sai2_enabled, << W([pllsai2n |-> c.pll_sai2_mul]) >>)


\* Faulty variant: the final wait for PLLRDY is missing.
setup_pll_on_nowait(fam, c) ==
    << W([pllon |-> TRUE]) >>
    \o Only(FeatL(fam) /\ c.sai1_enabled,
            << W([pllsai1on |-> TRUE]), Poll("pllsai1rdy", TRUE) >>)
    \o Only(FeatSai2(fam) /\ c.sai2_enabled,
            << W([pllsai2on |-> TRUE]), Poll("pllsai2rdy", TRUE) >>)

\* PLL back on, the secondary PLLs on and waited for, then the PLL waited for.
setup_pll_on(fam, c) ==
    << W([pllon |-> TRUE]) >>
    \o Only(FeatL(fam) /\ c.sai1_enabled,
            << W([pllsai1on |-> TRUE]), Poll("pllsai1rdy", TRUE) >>)
    \o Only(FeatSai2(fam) /\ c.sai2_enabled,
            << W([pllsai2on |-> TRUE]), Poll("pllsai2rdy", TRUE) >>)
    \o << Poll("pllrdy", TRUE) >>

\* Output enables of the main PLL and of the enabled secondary PLLs.
setup_pll_outputs(fam, c) ==
    << W([pllpen |-> TRUE, pllqen |-> TRUE, pllren |-> TRUE]) >>
    \o Only(FeatL(fam) /\ c.sai1_enabled,
            << W([pllsai1pen |-> TRUE, pllsai1qen |-> TRUE, pllsai1ren |-> TRUE]) >>)
    \o Only(FeatSai2(fam) /\ c.sai2_enabled,
            << W([pllsai2pen |-> TRUE, pllsai2ren |-> TRUE]) >>)

\* if let InputSrc::Pll(pll_src) = self.input_src { ... }
setup_pll(fam, c) ==
    Only(c.input_src.kind = "Pll",
         setup_pll_off \o setup_pll_cfg(fam, c) \o setup_pll_on(fam, c)
             \o setup_pll_outputs(fam, c))


\* Faulty variant: the two APB prescalers are swapped.
setup_cfgr_swapped(fam, c) ==
    << W(Merge(Merge([ sw    |-> InputSrc_bits(fam, c.input_src),
                       hpre  |-> HclkPrescaler_bits(c.hclk_prescaler),
                       ppre1 |-> ApbPrescaler_bits(c.apb2_prescaler) ],
                     IF fam # "g0"
                     THEN [ppre2 |-> ApbPrescaler_bits(c.apb1_prescaler)]
                     ELSE NoFields),
               IF FeatL(fam)
               THEN [stopwuck |-> StopWuck_bits(c.stop_wuck)]
               ELSE NoFields)) >>

\* cfgr: multiplexer, prescalers, wake-up clock select (g0: ppre is held in ppre1).
setup_cfgr(fam, c) ==
    << W(Merge(Merge([ sw    |-> InputSrc_bits(fam, c.input_src),
                       hpre  |-> HclkPrescaler_bits(c.hclk_prescaler),
                       ppre1 |-> ApbPrescaler_bits(c.apb1_prescaler) ],
                     IF fam # "g0"
                     THEN [ppre2 |-> ApbPrescaler_bits(c.apb2_prescaler)]
                     ELSE NoFields),
               IF FeatL(fam)
               THEN [stopwuck |-> StopWuck_bits(c.stop_wuck)]
               ELSE NoFields)) >>

\* csson, clk48sel (ccipr, l5: ccipr1), HSI48.
setup_aux(fam, c) ==
    << W([csson |-> c.security_system]) >>
    \o Only(fam # "g0", << W([clk48sel |-> Clk48Src_bits(c.clk48_src)]) >>)
    \o Only(fam # "g0" /\ c.hsi48_on,
            << W([hsi48on |-> TRUE]), Poll("hsi48rdy", TRUE) >>)


\* Faulty variant: the default oscillator is kept whenever the PLL is the source.
setup_default_off_keeps_pll(fam, c) ==
    IF FeatL(fam)
    THEN CASE c.input_src.kind \in {"Msi", "Pll"} -> << >>
           [] OTHER -> << W([msion |-> FALSE]) >>
    ELSE CASE c.input_src.kind \in {"Hsi", "Pll"} -> << >>
           [] OTHER -> << W([hsion |-> FALSE]) >>

\* "If we're not using the default clock source as input source or for PLL, turn it off."
setup_default_off(fam, c) ==
    IF FeatL(fam)
    THEN CASE c.input_src.kind = "Msi" -> << >>
           [] c.input_src.kind = "Pll" ->
                 (IF c.input_src.pll.kind = "Msi" THEN << >> ELSE << W([msion |-> FALSE]) >>)
           [] OTHER -> << W([msion |-> FALSE]) >>
    ELSE CASE c.input_src.kind = "Hsi" -> << >>
           [] c.input_src.kind = "Pll" ->
                 (IF c.input_src.pll.kind = "Hsi" THEN << >> ELSE << W([hsion |-> FALSE]) >>)
           [] OTHER -> << W([hsion |-> FALSE]) >>

\* rcc_en_reset!(apb2, syscfg, rcc)
setup_syscfg == << W([syscfgen |-> TRUE]) >>


\* Faulty variant: the flash latency is written after the PLL has been brought up.
setup_body_flash_late(fam, c) ==
    setup_oscillators(c) \o setup_hsebyp(c) \o setup_pll(fam, c) \o setup_flash(fam, c)
        \o setup_cfgr(fam, c) \o setup_aux(fam, c) \o setup_default_off(fam, c)
        \o setup_syscfg

\* Faulty variant: the bypass bit is written before the oscillators are started.
setup_body_bypass_first(fam, c) ==
    setup_flash(fam, c) \o setup_hsebyp(c) \o setup_oscillators(c) \o setup_pll(fam, c)
        \o setup_cfgr(fam, c) \o setup_aux(fam, c) \o setup_default_off(fam, c)
        \o setup_syscfg

\* The accesses of setup on a Configuration that passed validation.
setup_body(fam, c) ==
    setup_flash(fam, c) \o setup_oscillators(c) \o setup_hsebyp(c) \o setup_pll(fam, c)
        \o setup_cfgr(fam, c) \o setup_aux(fam, c) \o setup_default_off(fam, c)
        \o setup_syscfg

\* setup: the validator first; Err(SpeedError) returns at once.
setup_result(fam, c) == IF validate_speeds(fam, c) = "NotValid" THEN "Err" ELSE "Ok"


\* Faulty variant: the validator's verdict is acted on only after the flash latency is written.
setup_validates_late(fam, c) ==
    IF setup_result(fam, c) = "Err" THEN setup_flash(fam, c) ELSE setup_body(fam, c)

setup(fam, c) == IF setup_result(fam, c) = "Err" THEN << >> ELSE setup_body(fam, c)


(***************************************************************************)
(* Clocks::re_select_input                                                 *)
(***************************************************************************)
\* Faulty variant: the switch rewrites the AHB prescaler too.
re_select_sw_with_hpre(fam, c) ==
    << W([sw |-> InputSrc_bits(fam, c.input_src), hpre |-> HclkPrescaler_bits(1)]) >>

re_select_sw(fam, c) == << W([sw |-> InputSrc_bits(fam, c.input_src)]) >>


\* Faulty variant: HSI is taken to be running after every wake.
re_select_pll_src_hsi_assumed(fam, c) ==
    CASE c.input_src.pll.kind = "Hse" -> << W([hseon |-> TRUE]), Poll("hserdy", TRUE) >>
      [] c.input_src.pll.kind = "Hsi" -> << >>
      [] c.input_src.pll.kind = "Msi" ->
            Only(c.stop_wuck = "Hsi", << W([msion |-> TRUE]), Poll("msirdy", TRUE) >>)
      [] c.input_src.pll.kind = "None" -> << >>

\* InputSrc::Pll(pll_src): the inner match that re-enables the PLL's feed.
re_select_pll_src(fam, c) ==
    CASE c.input_src.pll.kind = "Hse" -> << W([hseon |-> TRUE]), Poll("hserdy", TRUE) >>
      [] c.input_src.pll.kind = "Hsi" ->
            Only(FeatL(fam) /\ c.stop_wuck = "Msi",
                 << W([hsion |-> TRUE]), Poll("hsirdy", TRUE) >>)
      [] c.input_src.pll.kind = "Msi" ->
            Only(c.stop_wuck = "Hsi", << W([msion |-> TRUE]), Poll("msirdy", TRUE) >>)
      [] c.input_src.pll.kind = "None" -> << >>


\* Faulty variant: the PLL is turned off for the switch and not turned on again.
re_select_pll_left_off(fam, c) ==
    << W([pllon |-> FALSE]), Poll("pllrdy", FALSE) >> \o re_select_sw(fam, c)

\* InputSrc::Pll(pll_src): PLL off, wait, multiplexer, PLL on, wait.
re_select_pll(fam, c) ==
    << W([pllon |-> FALSE]), Poll("pllrdy", FALSE) >>
    \o re_select_sw(fam, c)
    \o << W([pllon |-> TRUE]), Poll("pllrdy", TRUE) >>

re_select_input(fam, c) ==
    CASE c.input_src.kind = "Hse" ->
            << W([hseon |-> TRUE]), Poll("hserdy", TRUE) >> \o re_select_sw(fam, c)
      [] c.input_src.kind = "Pll" -> re_select_pll_src(fam, c) \o re_select_pll(fam, c)
      [] c.input_src.kind = "Hsi" ->
            Only(FeatL(fam) /\ c.stop_wuck = "Msi",
                 << W([hsion |-> TRUE]), Poll("hsirdy", TRUE) >> \o re_select_sw(fam, c))
      [] c.input_src.kind = "Msi" ->
            Only(c.stop_wuck = "Hsi",
                 << W([msion |-> TRUE]), Poll("msirdy", TRUE) >> \o re_select_sw(fam, c))
      [] c.input_src.kind = "Lsi" ->
            << W([lsion |-> TRUE]), Poll("lsirdy", TRUE) >> \o re_select_sw(fam, c)
      [] c.input_src.kind = "Lse" ->
            << W([lseon |-> TRUE]), Poll("lserdy", TRUE) >> \o re_select_sw(fam, c)

(***************************************************************************)
(* Runtime mutators (l4, l5 only).                                         *)
(***************************************************************************)

\* Faulty variant: MSI as the PLL feed is accepted too.
change_msi_speed_accepts_pll(c, range) ==
    IF ~(c.input_src.kind = "Msi" \/ (c.input_src.kind = "Pll" /\ c.input_src.pll.kind = "Msi"))
    THEN << Panic >>
    ELSE << Poll("msirdy", TRUE),
            W([msirange |-> range, msirgsel |-> TRUE]),
            SetInputSrc(InputSrc_Msi(range)) >>

\* Faulty variant: the Configuration is not updated to the new range.
change_msi_speed_stale_cfg(c, range) ==
    IF c.input_src.kind # "Msi"
    THEN << Panic >>
    ELSE << Poll("msirdy", TRUE),
            W([msirange |-> range, msirgsel |-> TRUE]) >>

change_msi_speed(c, range) ==
    IF c.input_src.kind # "Msi"
    THEN << Panic >>
    ELSE << Poll("msirdy", TRUE),
            W([msirange |-> range, msirgsel |-> TRUE]),
            SetInputSrc(InputSrc_Msi(range)) >>


\* Faulty variant: only MSI as the direct input source is rejected.
enable_msi_48_direct_only(c) ==
    IF c.input_src.kind = "Msi"
    THEN << Panic >>
    ELSE << W([msion |-> FALSE]),
            Poll("msirdy", FALSE),
            W([msirange |-> R48M, msirgsel |-> TRUE, msion |-> TRUE]),
            Poll("msirdy", TRUE) >>

enable_msi_48(c) ==
    IF c.input_src.kind = "Msi" \/ c.input_src.kind = "Pll"
    THEN << Panic >>
    ELSE << W([msion |-> FALSE]),
            Poll("msirdy", FALSE),
            W([msirange |-> R48M, msirgsel |-> TRUE, msion |-> TRUE]),
            Poll("msirdy", TRUE) >>

(***************************************************************************)
(* Hardware.  Every oscillator and PLL has an enable bit, which software   *)
(* writes, and a ready flag, which only the hardware changes: it follows   *)
(* the enable bit after a delay.                                           *)
(***************************************************************************)
Oscs == {"msi", "hsi", "hse", "pll", "pllsai1", "pllsai2", "hsi48", "lsi", "lse"}

OnBit(o) ==
    CASE o = "msi" -> "msion"
      [] o = "hsi" -> "hsion"
      [] o = "hse" -> "hseon"
      [] o = "pll" -> "pllon"
      [] o = "pllsai1" -> "pllsai1on"
      [] o = "pllsai2" -> "pllsai2on"
      [] o = "hsi48" -> "hsi48on"
      [] o = "lsi" -> "lsion"
      [] o = "lse" -> "lseon"

RdyFlag(o) ==
    CASE o = "msi" -> "msirdy"
      [] o = "hsi" -> "hsirdy"
      [] o = "hse" -> "hserdy"
      [] o = "pll" -> "pllrdy"
      [] o = "pllsai1" -> "pllsai1rdy"
      [] o = "pllsai2" -> "pllsai2rdy"
      [] o = "hsi48" -> "hsi48rdy"
      [] o = "lsi" -> "lsirdy"
      [] o = "lse" -> "lserdy"

\* The oscillator that is the system clock out of reset and after a wake from Stop.
DefaultOsc(fam) == IF FeatL(fam) THEN "msi" ELSE "hsi"

\* The multiplexer pattern that selects oscillator o.
SwBitsOf(fam, o) ==
    CASE o = "msi" -> InputSrc_bits(fam, InputSrc_Msi(R4M))
      [] o = "hsi" -> InputSrc_bits(fam, InputSrc_Hsi)

\* Registers out of reset: the default oscillator on, ready and selected, all else off.
ResetRcc(fam) ==
    [ msion |-> FeatL(fam), msirdy |-> FeatL(fam), msirange |-> R4M, msirgsel |-> FALSE,
      hsion |-> ~FeatL(fam), hsirdy |-> ~FeatL(fam),
      hseon |-> FALSE, hserdy |-> FALSE, hsebyp |-> FALSE,
      pllon |-> FALSE, pllrdy |-> FALSE,
      pllsai1on |-> FALSE, pllsai1rdy |-> FALSE,
      pllsai2on |-> FALSE, pllsai2rdy |-> FALSE,
      hsi48on |-> FALSE, hsi48rdy |-> FALSE,
      lsion |-> FALSE, lsirdy |-> FALSE, lseon |-> FALSE, lserdy |-> FALSE,
      csson |-> FALSE,
      pllsrc |-> 0, plln |-> 16, pllm |-> 0, pllr |-> 0,
      pllpen |-> FALSE, pllqen |-> FALSE, pllren |-> FALSE,
      pllsai1n |-> 16, pllsai1pen |-> FALSE, pllsai1qen |-> FALSE, pllsai1ren |-> FALSE,
      pllsai2n |-> 16, pllsai2pen |-> FALSE, pllsai2ren |-> FALSE,
      sw |-> SwBitsOf(fam, DefaultOsc(fam)), hpre |-> 0, ppre1 |-> 0, ppre2 |-> 0,
      stopwuck |-> 0, clk48sel |-> 0, syscfgen |-> FALSE ]

ResetFlash == [latency |-> 0]

\* The oscillator the hardware falls back to on a wake from Stop (STOPWUCK; g0, g4: HSI).
WakeOsc(fam, r) == IF FeatL(fam) /\ r.stopwuck = 0 THEN "msi" ELSE "hsi"

\* Stop mode powers down MSI, HSI, HSE, the PLLs and HSI48; the wake brings the
\* fallback oscillator up and selects it.
PoweredDown == {"msi", "hsi", "hse", "pll", "pllsai1", "pllsai2", "hsi48"}

AfterWake(fam, r) ==
    [k \in DOMAIN r |->
        IF k = "sw" THEN SwBitsOf(fam, WakeOsc(fam, r))
        ELSE IF k \in {OnBit(WakeOsc(fam, r)), RdyFlag(WakeOsc(fam, r))} THEN TRUE
        ELSE IF \E o \in PoweredDown : k \in {OnBit(o), RdyFlag(o)} THEN FALSE
        ELSE r[k]]


(***************************************************************************)
(* The Configurations the model is run on: every input source of the       *)
(* family, with the auxiliary fields taken from a few option bundles, both *)
(* wake-up clocks, and a PLL multiplier inside and outside the range.      *)
(***************************************************************************)
HseFreqs == {8000000, 48000000}

PllSrcs(fam) ==
    {PllSrc_None, PllSrc_Hsi} \cup {PllSrc_Hse(f) : f \in HseFreqs}
        \cup (IF FeatL(fam) THEN {PllSrc_Msi(R4M)} ELSE {})

InputSrcs(fam) ==
    {InputSrc_Hsi} \cup {InputSrc_Hse(f) : f \in HseFreqs}
        \cup {InputSrc_Pll(p) : p \in PllSrcs(fam)}
        \cup (IF FeatL(fam) THEN {InputSrc_Msi(R4M)} ELSE {})
        \cup (IF fam = "g0" THEN {InputSrc_Lsi, InputSrc_Lse} ELSE {})

Opt(sai1, sai2, byp, css, h48, hpre, p1, p2) ==
    [ sai1_enabled |-> sai1, sai2_enabled |-> sai2, hse_bypass |-> byp,
      security_system |-> css, hsi48_on |-> h48,
      hclk_prescaler |-> hpre, apb1_prescaler |-> p1, apb2_prescaler |-> p2 ]

Options(fam) ==
    { o \in { Opt(FALSE, FALSE, FALSE, FALSE, FALSE, 1, 1, 1),
              Opt(TRUE, FALSE, TRUE, FALSE, FALSE, 1, 1, 1),
              Opt(FALSE, TRUE, FALSE, TRUE, FALSE, 1, 2, 1),
              Opt(TRUE, TRUE, FALSE, FALSE, TRUE, 2, 4, 2),
              Opt(FALSE, FALSE, TRUE, TRUE, TRUE, 1, 1, 1),
              Opt(FALSE, FALSE, TRUE, TRUE, FALSE, 2, 4, 1) } :
        /\ (~FeatL(fam) => ~o.sai1_enabled /\ ~o.sai2_enabled)
        /\ (fam = "g0" => ~o.hsi48_on /\ o.apb2_prescaler = 1) }

StopWucks(fam) == IF FeatL(fam) THEN {"Msi", "Hsi"} ELSE {"Msi"}

Pllns(fam) == {default_plln(fam), 6}

Configs(fam) ==
    { [ Merge(Clocks_default(fam), o) EXCEPT
            !.input_src = s, !.stop_wuck = w, !.plln = n ] :
        s \in InputSrcs(fam), o \in Options(fam), w \in StopWucks(fam), n \in Pllns(fam) }

\* The ranges change_msi_speed is called with.
ArgRanges == {0, R48M}

(***************************************************************************)
(* State machine.                                                          *)
(***************************************************************************)
Init ==
    /\ family \in Families
    /\ cfg \in Configs(family)
    /\ rcc = ResetRcc(family)
    /\ flash = ResetFlash
    /\ op = "none"
    /\ prog = << >>
    /\ pc = 1
    /\ log = << >>
    /\ result = "none"
    /\ ops = 0
    /\ setupOk = FALSE
    /\ rcc0 = rcc
    /\ flash0 = flash
    /\ cfg0 = cfg
    /\ ret = 0

\* No operation is running and the program has not aborted.
Idle == op \in {"none", "stop_wake"} \/ result \notin {"none", "panic"}

Running == op \notin {"none", "stop_wake"} /\ result = "none"

Call(o, p) ==
    /\ Idle
    /\ ops < MaxOps
    /\ op' = o
    /\ prog' = p
    /\ pc' = 1
    /\ log' = << >>
    /\ result' = "none"
    /\ ops' = ops + 1
    /\ rcc0' = rcc
    /\ flash0' = flash
    /\ cfg0' = cfg
    /\ UNCHANGED <<family, cfg, rcc, flash, setupOk, ret>>

\* setup is applied once, at startup.
CallSetup == op = "none" /\ Call("setup", setup(family, cfg))

CallReSelectInput == setupOk /\ Call("re_select_input", re_select_input(family, cfg))

CallChangeMsiSpeed ==
    /\ setupOk
    /\ FeatL(family)
    /\ \E range \in ArgRanges : Call("change_msi_speed", change_msi_speed(cfg, range))

CallEnableMsi48 ==
    /\ setupOk
    /\ FeatL(family)
    /\ Call("enable_msi_48", enable_msi_48(cfg))

Next_instr == prog[pc]

Advance ==
    /\ pc' = pc + 1
    /\ log' = Append(log, Next_instr)
    /\ UNCHANGED <<family, op, prog, result, ops, setupOk, rcc0, flash0, cfg0, ret>>

\* rcc.<reg>.modify(|_, w| ...)
StepWrite ==
    /\ Running
    /\ pc <= Len(prog)
    /\ Next_instr.op = "write"
    /\ rcc' = [k \in DOMAIN rcc |->
                 IF k \in DOMAIN Next_instr.f THEN Next_instr.f[k] ELSE rcc[k]]
    /\ Advance
    /\ UNCHANGED <<cfg, flash>>

\* flash.acr.modify(|_, w| ...)
StepFlashWrite ==
    /\ Running
    /\ pc <= Len(prog)
    /\ Next_instr.op = "fwrite"
    /\ flash' = [k \in DOMAIN flash |->
                   IF k \in DOMAIN Next_instr.f THEN Next_instr.f[k] ELSE flash[k]]
    /\ Advance
    /\ UNCHANGED <<cfg, rcc>>

\* while rcc.<reg>.read().<flag>().bit_is_clear() {}  (or bit_is_set)
StepPoll ==
    /\ Running
    /\ pc <= Len(prog)
    /\ Next_instr.op = "poll"
    /\ rcc[Next_instr.flag] = Next_instr.val
    /\ Advance
    /\ UNCHANGED <<cfg, rcc, flash>>

\* self.input_src = InputSrc::Msi(range)
StepSetCfg ==
    /\ Running
    /\ pc <= Len(prog)
    /\ Next_instr.op = "setcfg"
    /\ cfg' = [cfg EXCEPT !.input_src = Next_instr.f.input_src]
    /\ Advance
    /\ UNCHANGED <<rcc, flash>>

\* panic!(...)
StepPanic ==
    /\ Running
    /\ pc <= Len(prog)
    /\ Next_instr.op = "panic"
    /\ result' = "panic"
    /\ UNCHANGED <<family, cfg, rcc, flash, op, prog, pc, log, ops, setupOk, rcc0, flash0, cfg0, ret>>

\* The operation returns: setup with Ok(()) or Err(SpeedError), the others with ().
Return ==
    /\ Running
    /\ pc = Len(prog) + 1
    /\ result' = IF op = "setup" THEN setup_result(family, cfg) ELSE "Unit"
    /\ setupOk' = (setupOk \/ (op = "setup" /\ setup_result(family, cfg) = "Ok"))
    /\ UNCHANGED <<family, cfg, rcc, flash, op, prog, pc, log, ops, rcc0, flash0, cfg0, ret>>

\* A ready flag follows its enable bit.
HwFlagOf(o) ==
    /\ rcc[OnBit(o)] # rcc[RdyFlag(o)]
    /\ rcc' = [rcc EXCEPT ![RdyFlag(o)] = rcc[OnBit(o)]]
    /\ UNCHANGED <<family, cfg, flash, op, prog, pc, log, result, ops, setupOk, rcc0, flash0, cfg0, ret>>

HwFlag == \E o \in Oscs : HwFlagOf(o)

\* The device enters Stop mode and wakes up on the fallback oscillator.
StopWake ==
    /\ Idle
    /\ setupOk
    /\ op # "stop_wake"
    /\ ops < MaxOps
    /\ rcc' = AfterWake(family, rcc)
    /\ op' = "stop_wake"
    /\ prog' = << >>
    /\ pc' = 1
    /\ log' = << >>
    /\ result' = "none"
    /\ ops' = ops + 1
    /\ UNCHANGED <<family, cfg, flash, setupOk, rcc0, flash0, cfg0, ret>>

Step == StepWrite \/ StepFlashWrite \/ StepPoll \/ StepSetCfg \/ StepPanic \/ Return

Next ==
    \/ CallSetup
    \/ CallReSelectInput
    \/ CallChangeMsiSpeed
    \/ CallEnableMsi48
    \/ StepWrite
    \/ StepFlashWrite
    \/ StepPoll
    \/ StepSetCfg
    \/ StepPanic
    \/ Return
    \/ HwFlag
    \/ StopWake

Spec == Init /\ [][Next]_vars

\* The call runs to completion and the hardware asserts and clears its ready flags.
FairSpec == Spec /\ WF_vars(Step) /\ \A o \in Oscs : WF_vars(HwFlagOf(o))

(***************************************************************************)
(* The frequency queries and the validator, applied to Configurations      *)
(* built by the caller (every field of Clocks is public).                  *)
(***************************************************************************)
\* Arithmetic overflow panics in a build with overflow checks and wraps without.
Builds == {"debug", "release"}

CalcHseFreqs(fam) == {8000000, 25000000, 48000000, max_clock(fam), max_clock(fam) + 1}

CalcMsiRanges == {R4M, R48M}

CalcPllSrcs(fam) ==
    {PllSrc_None, PllSrc_Hsi} \cup {PllSrc_Hse(f) : f \in CalcHseFreqs(fam)}
        \cup (IF FeatL(fam) THEN {PllSrc_Msi(r) : r \in CalcMsiRanges} ELSE {})

CalcInputSrcs(fam) ==
    {InputSrc_Hsi} \cup {InputSrc_Hse(f) : f \in CalcHseFreqs(fam)}
        \cup {InputSrc_Pll(p) : p \in CalcPllSrcs(fam)}
        \cup (IF FeatL(fam) THEN {InputSrc_Msi(r) : r \in CalcMsiRanges} ELSE {})
        \cup (IF fam = "g0" THEN {InputSrc_Lsi, InputSrc_Lse} ELSE {})

CalcPllms == {1, 2, 3}

CalcPllrs == {2, 4}

\* << plln, pll_sai1_mul, pll_sai2_mul >>
CalcMuls(fam) ==
    { << n, 8, 8 >> : n \in {6, 7, 8, 9, default_plln(fam), 86, 87, 90, 127, 128} }
        \cup (IF FeatL(fam)
              THEN { << default_plln(fam), 6, 8 >>, << default_plln(fam), 7, 86 >>,
                     << default_plln(fam), 87, 8 >>, << default_plln(fam), 8, 6 >>,
                     << default_plln(fam), 86, 7 >>, << default_plln(fam), 8, 87 >> }
              ELSE {})

\* << hclk_prescaler, apb1_prescaler, apb2_prescaler >>
CalcPrescalers == { << 1, 1, 1 >>, << 2, 1, 1 >>, << 1, 2, 4 >> }

CalcClk48Srcs(fam) == IF FeatL(fam) THEN {"Msi", "Hsi48"} ELSE {"Hsi48"}

CalcConfigs(fam) ==
    { [ Clocks_default(fam) EXCEPT
            !.input_src = s, !.pllm = m, !.pllr = r,
            !.plln = n[1], !.pll_sai1_mul = n[2], !.pll_sai2_mul = n[3],
            !.hclk_prescaler = d[1], !.apb1_prescaler = d[2], !.apb2_prescaler = d[3],
            !.clk48_src = u ] :
        s \in CalcInputSrcs(fam), m \in CalcPllms, r \in CalcPllrs,
        n \in CalcMuls(fam), d \in CalcPrescalers, u \in CalcClk48Srcs(fam) }

CalcInit ==
    /\ family \in Families
    /\ cfg \in CalcConfigs(family)
    /\ rcc = ResetRcc(family)
    /\ flash = ResetFlash
    /\ op = "none"
    /\ prog = << >>
    /\ pc = 1
    /\ log = << >>
    /\ result = "none"
    /\ ops = 0
    /\ setupOk = FALSE
    /\ rcc0 = rcc
    /\ flash0 = flash
    /\ cfg0 = cfg
    /\ ret = 0

\* One of the frequency queries is called on the Configuration.
CallQuery ==
    /\ result # "panic"
    /\ \E q \in Queries, b \in Builds :
          /\ op' = q
          /\ IF \/ unimplemented(family, cfg, q)
                \/ /\ q # "usb"
                   /\ b = "debug"
                   /\ calc_sysclock_overflows(cfg.input_src, cfg.pllm, cfg.plln)
             THEN result' = "panic" /\ ret' = 0
             ELSE result' = "Unit" /\ ret' = query(cfg, q)
    /\ cfg0' = cfg
    /\ UNCHANGED <<family, cfg, rcc, flash, prog, pc, log, ops, setupOk, rcc0, flash0>>

\* validate_speeds is called on the Configuration.
CallValidateSpeeds ==
    /\ result # "panic"
    /\ \E b \in Builds :
          /\ op' = "validate_speeds"
          /\ IF /\ ~plln_out_of_range(family, cfg)
                /\ b = "debug"
                /\ calc_sysclock_overflows(cfg.input_src, cfg.pllm, cfg.plln)
             THEN result' = "panic" /\ ret' = 0
             ELSE result' = "Unit" /\ ret' = validate_speeds(family, cfg)
    /\ cfg0' = cfg
    /\ UNCHANGED <<family, cfg, rcc, flash, prog, pc, log, ops, setupOk, rcc0, flash0>>

CalcNext ==
    \/ CallQuery
    \/ CallValidateSpeeds

CalcSpec == CalcInit /\ [][CalcNext]_vars

(***************************************************************************)
(* The operations, started from Configurations whose hclk lies on and      *)
(* next to the breakpoints of the wait-state selection in setup.           *)
(***************************************************************************)
\* Breakpoints of the family's wait-state selection, in Hz.
LatencyBreakpoints(fam) ==
    CASE FeatL4(fam) -> {16000000, 32000000, 48000000, 64000000}
      [] fam = "l5" -> {20000000, 40000000, 60000000, 80000000, 100000000}
      [] fam = "g0" -> {24000000, 48000000}
      [] fam = "g4" -> {34000000, 68000000, 102000000, 136000000}

LatencyHseFreqs(fam) ==
    LatencyBreakpoints(fam) \cup { b + 1 : b \in LatencyBreakpoints(fam) }
        \cup {4000000, max_clock(fam)}

LatencyInputSrcs(fam) ==
    { InputSrc_Hse(f) : f \in LatencyHseFreqs(fam) }
        \cup {InputSrc_Pll(PllSrc_Hsi)}
        \cup (IF FeatL(fam) THEN {InputSrc_Msi(R4M)} ELSE {})

LatencyConfigs(fam) ==
    { [ Clocks_default(fam) EXCEPT !.input_src = s, !.hclk_prescaler = d ] :
        s \in LatencyInputSrcs(fam), d \in {1, 2} }

LatencyInit ==
    /\ family \in Families
    /\ cfg \in LatencyConfigs(family)
    /\ rcc = ResetRcc(family)
    /\ flash = ResetFlash
    /\ op = "none"
    /\ prog = << >>
    /\ pc = 1
    /\ log = << >>
    /\ result = "none"
    /\ ops = 0
    /\ setupOk = FALSE
    /\ rcc0 = rcc
    /\ flash0 = flash
    /\ cfg0 = cfg
    /\ ret = 0

LatencySpec == LatencyInit /\ [][Next]_vars

TypeOK ==
    /\ family \in Families
    /\ pc \in 1 .. Len(prog) + 1
    /\ ops \in 0 .. MaxOps
    /\ Len(log) <= Len(prog)


(***************************************************************************)
(* Vocabulary of the properties.                                           *)
(***************************************************************************)
\* Access ins writes register field fld.
Writes(ins, fld) == ins.op = "write" /\ fld \in DOMAIN ins.f

\* Access ins writes value v to register field fld.
WritesVal(ins, fld, v) == Writes(ins, fld) /\ ins.f[fld] = v

\* Access ins is a poll that read flag flg with value v.
Observed(ins, flg, v) == ins.op = "poll" /\ ins.flag = flg /\ ins.val = v

IsRegWrite(ins) == ins.op \in {"write", "fwrite"}

\* Before access i, the ready flag of o was read set, and its enable bit has not
\* been cleared since.
ReadyObservedBefore(i, o) ==
    \E j \in 1 .. i - 1 :
        /\ Observed(log[j], RdyFlag(o), TRUE)
        /\ \A k \in j + 1 .. i - 1 : ~WritesVal(log[k], OnBit(o), FALSE)

\* Before access i, o was disabled and then its ready flag read clear, and it has
\* not been enabled since.
OffObservedBefore(i, o) ==
    \E j \in 1 .. i - 1 :
        /\ WritesVal(log[j], OnBit(o), FALSE)
        /\ \E k \in j + 1 .. i - 1 : Observed(log[k], RdyFlag(o), FALSE)
        /\ \A k \in j + 1 .. i - 1 : ~WritesVal(log[k], OnBit(o), TRUE)

\* The oscillator an input source or PLL source names, if any.
OscOf(kind) ==
    CASE kind = "Msi" -> {"msi"}
      [] kind = "Hsi" -> {"hsi"}
      [] kind = "Hse" -> {"hse"}
      [] kind = "Lsi" -> {"lsi"}
      [] kind = "Lse" -> {"lse"}
      [] OTHER -> {}

\* What has to run for the configured source to clock the system.
SourceOscs(c) ==
    IF c.input_src.kind = "Pll"
    THEN {"pll"} \cup OscOf(c.input_src.pll.kind)
    ELSE OscOf(c.input_src.kind)

\* MSI is the configured source, directly or as the feed of the PLL.
MsiConfigured(c) == "msi" \in SourceOscs(c)

PllFields == {"pllsrc", "plln", "pllm", "pllr"}

PllOutputEnables == {"pllpen", "pllqen", "pllren"}

Sai1OutputEnables == {"pllsai1pen", "pllsai1qen", "pllsai1ren"}

Sai2OutputEnables == {"pllsai2pen", "pllsai2ren"}

WritesAny(ins, flds) == \E fld \in flds : Writes(ins, fld)

\* In register state r, o drives the multiplexer or feeds the PLL that drives it.
Driving(fam, r, o) ==
    LET pllsel == r.sw = InputSrc_bits(fam, InputSrc_Pll(PllSrc_None))
    IN  CASE o = "msi" ->
                FeatL(fam) /\ \/ r.sw = InputSrc_bits(fam, InputSrc_Msi(R4M))
                              \/ pllsel /\ r.pllsrc = PllSrc_bits(PllSrc_Msi(R4M))
          [] o = "hsi" ->
                \/ r.sw = InputSrc_bits(fam, InputSrc_Hsi)
                \/ pllsel /\ r.pllsrc = PllSrc_bits(PllSrc_Hsi)
          [] o = "hse" ->
                \/ r.sw = InputSrc_bits(fam, InputSrc_Hse(0))
                \/ pllsel /\ r.pllsrc = PllSrc_bits(PllSrc_Hse(0))
          [] o = "pll" -> pllsel
          [] o = "lsi" -> fam = "g0" /\ r.sw = InputSrc_bits(fam, InputSrc_Lsi)
          [] o = "lse" -> fam = "g0" /\ r.sw = InputSrc_bits(fam, InputSrc_Lse)
          [] OTHER -> FALSE

\* The running operation is about to perform access ins.
AboutTo == Running /\ pc <= Len(prog)

(***************************************************************************)
(* C1.  setup on a Configuration the validator rejects returns             *)
(* Err(SpeedError) and writes no RCC or FLASH register: it performs no     *)
(* access at all, the registers are as they were at the call, and the only *)
(* thing it can do is return Err.                                          *)
(***************************************************************************)
C1_InvalidSetupTouchesNothing ==
    (op = "setup" /\ validate_speeds(family, cfg) = "NotValid") =>
        /\ log = << >>
        /\ rcc = rcc0
        /\ flash = flash0
        /\ pc = Len(prog) + 1
        /\ result \in {"none", "Err"}

C1_Witness == op = "setup" /\ result = "Err" /\ validate_speeds(family, cfg) = "NotValid"

(***************************************************************************)
(* C2.  In setup, every write of the multiplexer field CFGR.SW comes after *)
(* the ready flag of everything the configured source needs has been read  *)
(* set (the oscillator; for a PLL source, its feeding oscillator and the   *)
(* PLL), with no disabling of it in between.                               *)
(***************************************************************************)
C2_SetupSwitchAfterReady ==
    op = "setup" =>
        \A i \in 1 .. Len(log) :
            Writes(log[i], "sw") =>
                /\ log[i].f.sw = InputSrc_bits(family, cfg.input_src)
                /\ \A o \in SourceOscs(cfg) : ReadyObservedBefore(i, o)

C2_Witness ==
    /\ op = "setup"
    /\ cfg.input_src.kind = "Pll"
    /\ cfg.input_src.pll.kind = "Hse"
    /\ \E i \in 1 .. Len(log) : Writes(log[i], "sw")

(***************************************************************************)
(* C3.  In setup with a PLL input source, every write of the PLL's source  *)
(* select, multiplier or divider fields comes after PLLON was cleared and  *)
(* PLLRDY then read clear, with no enabling in between, and is made in a   *)
(* state where PLLON and PLLRDY are both clear.                            *)
(***************************************************************************)
C3_PllConfiguredWhileOff ==
    (op = "setup" /\ cfg.input_src.kind = "Pll") =>
        /\ \A i \in 1 .. Len(log) :
              WritesAny(log[i], PllFields) => OffObservedBefore(i, "pll")
        /\ (AboutTo /\ WritesAny(Next_instr, PllFields)) => (~rcc.pllon /\ ~rcc.pllrdy)

C3_Witness ==
    /\ op = "setup"
    /\ cfg.input_src.kind = "Pll"
    /\ \E i \in 1 .. Len(log) : WritesAny(log[i], PllFields)

(***************************************************************************)
(* C4.  In setup with a PLL input source, the main PLL's output enables    *)
(* are written only after PLLON was set again and PLLRDY then read set,    *)
(* and the output enables of each enabled secondary PLL only after that    *)
(* PLL's ready flag was read set.                                          *)
(***************************************************************************)
C4_OutputsAfterReady ==
    (op = "setup" /\ cfg.input_src.kind = "Pll") =>
        \A i \in 1 .. Len(log) :
            /\ WritesAny(log[i], PllOutputEnables) =>
                  \E j \in 1 .. i - 1 :
                      /\ WritesVal(log[j], "pllon", TRUE)
                      /\ \E k \in j + 1 .. i - 1 : Observed(log[k], "pllrdy", TRUE)
                      /\ \A k \in j + 1 .. i - 1 : ~WritesVal(log[k], "pllon", FALSE)
            /\ WritesAny(log[i], Sai1OutputEnables) => ReadyObservedBefore(i, "pllsai1")
            /\ WritesAny(log[i], Sai2OutputEnables) => ReadyObservedBefore(i, "pllsai2")

C4_Witness ==
    /\ op = "setup"
    /\ cfg.input_src.kind = "Pll"
    /\ \E i \in 1 .. Len(log) : WritesAny(log[i], PllOutputEnables)
    /\ \E i \in 1 .. Len(log) : WritesAny(log[i], Sai1OutputEnables)
    /\ \E i \in 1 .. Len(log) : WritesAny(log[i], Sai2OutputEnables)

(***************************************************************************)
(* C5.  In setup on a valid Configuration, the first register write is the *)
(* flash latency, with the code of the Configuration's hclk; so it comes   *)
(* before every write that enables an oscillator or the PLL and before the *)
(* multiplexer switch.                                                     *)
(***************************************************************************)
C5_FlashLatencyFirst ==
    (op = "setup" /\ validate_speeds(family, cfg) = "Valid") =>
        /\ \A i \in 1 .. Len(log) :
              (IsRegWrite(log[i]) /\ \A j \in 1 .. i - 1 : ~IsRegWrite(log[j])) =>
                  /\ log[i].op = "fwrite"
                  /\ "latency" \in DOMAIN log[i].f
                  /\ log[i].f.latency = wait_state(family, hclk(cfg))
        /\ \A i \in 1 .. Len(log) :
              (Writes(log[i], "sw") \/ \E o \in Oscs : WritesVal(log[i], OnBit(o), TRUE)) =>
                  \E j \in 1 .. i - 1 : log[j].op = "fwrite" /\ "latency" \in DOMAIN log[j].f
        /\ (result = "Ok" => \E i \in 1 .. Len(log) : log[i].op = "fwrite")

C5_Witness ==
    /\ op = "setup"
    /\ result = "Ok"
    /\ flash.latency > 0
    /\ \E i \in 1 .. Len(log) : WritesVal(log[i], "pllon", TRUE)


(***************************************************************************)
(* C6.  In setup on l4/l5 with MSI the configured source, directly or as   *)
(* the PLL feed: every write of the MSI range comes after MSION was        *)
(* cleared and MSIRDY then read clear, is never made while MSI is enabled  *)
(* and not ready, and is followed by MSI enabled and MSIRDY read set.      *)
(***************************************************************************)
C6_MsiOffBeforeRange ==
    (op = "setup" /\ FeatL(family) /\ MsiConfigured(cfg)) =>
        /\ \A i \in 1 .. Len(log) :
              Writes(log[i], "msirange") => OffObservedBefore(i, "msi")
        /\ (AboutTo /\ Writes(Next_instr, "msirange")) => ~(rcc.msion /\ ~rcc.msirdy)
        /\ result = "Ok" =>
              \E i \in 1 .. Len(log) :
                  /\ Writes(log[i], "msirange")
                  /\ ReadyObservedBefore(Len(log) + 1, "msi")
                  /\ rcc.msion

(***************************************************************************)
(* C7.  From the reset state, setup never clears the enable bit of the     *)
(* oscillator or PLL that at that step drives the multiplexer or feeds the *)
(* PLL that drives it.                                                     *)
(***************************************************************************)
C7_NeverDisablesDrivingClock ==
    (op = "setup" /\ AboutTo) =>
        \A o \in Oscs :
            WritesVal(Next_instr, OnBit(o), FALSE) => ~Driving(family, rcc, o)

(***************************************************************************)
(* C8.  When setup has returned Ok, the default oscillator of the family   *)
(* (MSI on l4/l5, HSI on g0/g4) is disabled exactly if it is neither the   *)
(* configured source nor the feed of the configured PLL, and the write     *)
(* that left it disabled came after the multiplexer was switched to the    *)
(* configured source.                                                      *)
(***************************************************************************)
C8_DefaultOscOffIffUnused ==
    (op = "setup" /\ result = "Ok") =>
        LET on == OnBit(DefaultOsc(family))
        IN  /\ ~rcc[on] <=> DefaultOsc(family) \notin SourceOscs(cfg)
            /\ \A i \in 1 .. Len(log) :
                  (/\ WritesVal(log[i], on, FALSE)
                   /\ \A k \in i + 1 .. Len(log) : ~Writes(log[k], on)) =>
                      \E j \in 1 .. i - 1 :
                          WritesVal(log[j], "sw", InputSrc_bits(family, cfg.input_src))

C8_Witness ==
    /\ op = "setup"
    /\ result = "Ok"
    /\ ~rcc[OnBit(DefaultOsc(family))]
    /\ cfg.input_src.kind = "Pll"

(***************************************************************************)
(* C9.  Under FairSpec (the call runs on, every ready flag eventually      *)
(* follows its enable bit): setup on a valid Configuration returns Ok, and *)
(* then SW holds the pattern of the configured source, the prescaler       *)
(* fields hold the configured prescalers, and the configured source (with  *)
(* the PLL and its feed, for a PLL source) is enabled and ready.           *)
(***************************************************************************)
SetupPost ==
    /\ rcc.sw = InputSrc_bits(family, cfg.input_src)
    /\ rcc.hpre = HclkPrescaler_bits(cfg.hclk_prescaler)
    /\ rcc.ppre1 = ApbPrescaler_bits(cfg.apb1_prescaler)
    /\ (family # "g0" => rcc.ppre2 = ApbPrescaler_bits(cfg.apb2_prescaler))
    /\ \A o \in SourceOscs(cfg) : rcc[OnBit(o)] /\ rcc[RdyFlag(o)]

C9_SetupTerminatesOk ==
    /\ (op = "setup" /\ result = "none" /\ validate_speeds(family, cfg) = "Valid")
           ~> (op = "setup" /\ result = "Ok" /\ SetupPost)
    /\ []((op = "setup" /\ result = "Ok") => SetupPost)

C9_Witness ==
    /\ op = "setup"
    /\ result = "Ok"
    /\ cfg.input_src = InputSrc_Pll(PllSrc_None)
    /\ SetupPost

(***************************************************************************)
(* C10.  In re_select_input, every write of the multiplexer field comes    *)
(* after the ready flag of the configured source was read set (for a PLL   *)
(* source: after the PLL was enabled and PLLRDY read set), with no         *)
(* disabling of it in between.                                             *)
(***************************************************************************)
C10_ReSelectSwitchAfterReady ==
    op = "re_select_input" =>
        \A i \in 1 .. Len(log) :
            Writes(log[i], "sw") =>
                \A o \in (IF cfg.input_src.kind = "Pll"
                          THEN {"pll"}
                          ELSE OscOf(cfg.input_src.kind)) : ReadyObservedBefore(i, o)


(***************************************************************************)
(* C11.  Under FairSpec: re_select_input called in the state a wake from   *)
(* Stop leaves (multiplexer on the fallback oscillator, that oscillator    *)
(* on and ready, the other sources powered down) returns, and then SW      *)
(* selects the configured source, and the configured source (for a PLL     *)
(* source: its feeding oscillator and the PLL) is enabled and ready.       *)
(***************************************************************************)
\* Register state r is what a wake from Stop leaves.
JustWoken(r) == r = AfterWake(family, r)

ReSelectPost ==
    /\ rcc.sw = InputSrc_bits(family, cfg.input_src)
    /\ \A o \in SourceOscs(cfg) : rcc[OnBit(o)] /\ rcc[RdyFlag(o)]

C11_ReSelectAfterWake ==
    /\ (op = "re_select_input" /\ result = "none" /\ JustWoken(rcc0))
           ~> (op = "re_select_input" /\ result = "Unit" /\ ReSelectPost)
    /\ []((op = "re_select_input" /\ result = "Unit" /\ JustWoken(rcc0)) => ReSelectPost)

C11_Witness ==
    /\ op = "re_select_input"
    /\ result = "Unit"
    /\ JustWoken(rcc0)
    /\ cfg.input_src.kind = "Pll"
    /\ cfg.input_src.pll.kind = "Hsi"
    /\ ~rcc0.hsion
    /\ rcc0.sw # rcc.sw
    /\ ReSelectPost

(***************************************************************************)
(* C12.  re_select_input called right after a successful setup, with no    *)
(* wake in between, leaves the Configuration as it was (so every derived   *)
(* frequency too) and the multiplexer selection, the PLL fields and the    *)
(* prescalers as setup left them, with the configured source enabled and   *)
(* ready.                                                                  *)
(***************************************************************************)
C12_ReSelectAfterSetupIdempotent ==
    (op = "re_select_input" /\ ops = 2 /\ result = "Unit") =>
        /\ cfg = cfg0
        /\ sysclk(cfg) = sysclk(cfg0)
        /\ \A fld \in {"sw", "hpre", "ppre1", "ppre2"} \cup PllFields \cup PllOutputEnables
                        \cup {"pllsai1n", "pllsai2n"} :
              rcc[fld] = rcc0[fld]
        /\ rcc.sw = InputSrc_bits(family, cfg.input_src)
        /\ \A o \in SourceOscs(cfg) : rcc[OnBit(o)] /\ rcc[RdyFlag(o)]

C12_Witness ==
    /\ op = "re_select_input"
    /\ ops = 2
    /\ result = "Unit"
    /\ cfg.input_src.kind = "Pll"
    /\ \E i \in 1 .. Len(log) : WritesVal(log[i], "pllon", FALSE)

(***************************************************************************)
(* C13.  change_msi_speed on a Configuration whose input source is not     *)
(* InputSrc::Msi panics: it writes no register, does not modify the        *)
(* Configuration and never returns.                                        *)
(***************************************************************************)
C13_ChangeMsiSpeedPanics ==
    (op = "change_msi_speed" /\ cfg0.input_src.kind # "Msi") =>
        /\ log = << >>
        /\ cfg = cfg0
        /\ flash = flash0
        /\ result \in {"none", "panic"}
        /\ result = "none" => (pc = 1 /\ AboutTo /\ Next_instr.op = "panic")

C13_Witness ==
    /\ op = "change_msi_speed"
    /\ result = "panic"
    /\ cfg.input_src = InputSrc_Pll(PllSrc_Msi(R4M))

(***************************************************************************)
(* C14.  change_msi_speed on a Configuration with input source Msi writes  *)
(* the range only after MSIRDY was read set, never clears MSION, never     *)
(* writes the multiplexer, the PLL fields or the prescalers, and when it   *)
(* has returned the Configuration's input source is Msi(range written),    *)
(* so sysclk() is that range's frequency.                                  *)
(***************************************************************************)
C14_ChangeMsiSpeedInPlace ==
    (op = "change_msi_speed" /\ cfg0.input_src.kind = "Msi") =>
        /\ \A i \in 1 .. Len(log) :
              /\ Writes(log[i], "msirange") =>
                    \E j \in 1 .. i - 1 : Observed(log[j], "msirdy", TRUE)
              /\ ~WritesVal(log[i], "msion", FALSE)
              /\ ~WritesAny(log[i], {"sw", "hpre", "ppre1", "ppre2", "pllon"} \cup PllFields)
              /\ log[i].op # "fwrite"
        /\ result # "panic"
        /\ result = "Unit" =>
              \E i \in 1 .. Len(log) :
                  /\ Writes(log[i], "msirange")
                  /\ cfg.input_src = InputSrc_Msi(log[i].f.msirange)
                  /\ sysclk(cfg) = MsiRange_value(log[i].f.msirange)
                  /\ rcc.msirange = log[i].f.msirange

C14_Witness ==
    /\ op = "change_msi_speed"
    /\ result = "Unit"
    /\ cfg0.input_src = InputSrc_Msi(R4M)
    /\ cfg.input_src = InputSrc_Msi(R48M)

(***************************************************************************)
(* C15.  Whenever change_msi_speed has returned, MSI is on at the new      *)
(* range and HSI is off.                                                   *)
(***************************************************************************)
C15_ChangeMsiSpeedEndsHsiOff ==
    (op = "change_msi_speed" /\ result = "Unit") =>
        /\ rcc.msion
        /\ rcc.msirange = cfg.input_src.val
        /\ ~rcc.hsion

(***************************************************************************)
(* C16.  enable_msi_48 on a Configuration in which MSI is the system       *)
(* source, directly or through the PLL, panics before any register is      *)
(* written.                                                                *)
(***************************************************************************)
C16_EnableMsi48PanicsOnMsi ==
    (op = "enable_msi_48" /\ MsiConfigured(cfg)) =>
        /\ log = << >>
        /\ result \in {"none", "panic"}
        /\ result = "none" => (pc = 1 /\ AboutTo /\ Next_instr.op = "panic")

C16_Witness ==
    /\ op = "enable_msi_48"
    /\ result = "panic"
    /\ cfg.input_src = InputSrc_Pll(PllSrc_Msi(R4M))

(***************************************************************************)
(* C17.  enable_msi_48 on a Configuration in which MSI is neither the      *)
(* input source nor the PLL source does not panic, and when it has         *)
(* returned MSI is enabled, ready and at the 48 MHz range; it writes       *)
(* neither the multiplexer, nor PLLON, nor the enable bit of the           *)
(* oscillator that drives the system clock.                                *)
(***************************************************************************)
C17_EnableMsi48LeavesSysclk ==
    (op = "enable_msi_48" /\ ~MsiConfigured(cfg)) =>
        /\ result # "panic"
        /\ ~(AboutTo /\ Next_instr.op = "panic")
        /\ result = "Unit" => (rcc.msion /\ rcc.msirdy /\ rcc.msirange = R48M)
        /\ \A i \in 1 .. Len(log) : ~WritesAny(log[i], {"sw", "pllon"})
        /\ AboutTo =>
              \A o \in Oscs : Writes(Next_instr, OnBit(o)) => ~Driving(family, rcc, o)

(***************************************************************************)
(* C18.  sysclk() of a Configuration with a PLL input source is            *)
(* floor(floor(floor(input / m) * n) / r), input being 16 MHz for Hsi, the *)
(* carried frequency for Hse, the range's frequency for Msi and 0 for      *)
(* None; sysclk() of any other Configuration is the oscillator's nominal   *)
(* frequency, whatever m, n and r are.                                     *)
(***************************************************************************)
\* Nominal frequency of oscillator selection src, in Hz.
NominalFreq(src) ==
    CASE src.kind = "Hsi" -> 16000000
      [] src.kind = "Hse" -> src.val
      [] src.kind = "Msi" -> MsiRange_value(src.val)
      [] src.kind = "None" -> 0
      [] src.kind = "Lsi" -> 32000
      [] src.kind = "Lse" -> 32768

\* x as << x \div 2^16, x % 2^16 >>.
Limbs(x) == << x \div 65536, x % 65536 >>

\* floor(q * n / r) in unbounded arithmetic, as << high part, low 16 bits >>.
ExactMulDiv(q, n, r) ==
    LET lo == (q % 65536) * n
        hi == (q \div 65536) * n + lo \div 65536
        l  == lo % 65536
    IN  << hi \div r, ((hi % r) * 65536 + l) \div r >>

C18_SysclkFormula ==
    op = "sysclk" =>
        /\ result = "Unit"
        /\ IF cfg.input_src.kind = "Pll"
           THEN Limbs(ret) = ExactMulDiv(NominalFreq(cfg.input_src.pll) \div cfg.pllm,
                                         cfg.plln, cfg.pllr)
           ELSE ret = NominalFreq(cfg.input_src)

(***************************************************************************)
(* C19.  validate_speeds returns NotValid for every Configuration whose    *)
(* plln (on L4/L5 also pll_sai1_mul or pll_sai2_mul) is outside the        *)
(* inclusive range 7..86 (L4/L5), 9..86 (G0), 8..127 (G4), whatever the    *)
(* source, the enable flags and the frequencies; a multiplier on the       *)
(* boundary of the range does not make the verdict NotValid.               *)
(***************************************************************************)
MulRange(fam) ==
    CASE FeatL(fam) -> 7 .. 86
      [] fam = "g0" -> 9 .. 86
      [] fam = "g4" -> 8 .. 127

OutsideMulRange(fam, c) ==
    \/ c.plln \notin MulRange(fam)
    \/ FeatL(fam) /\ (c.pll_sai1_mul \notin MulRange(fam) \/ c.pll_sai2_mul \notin MulRange(fam))

OnMulRangeBoundary(fam, c) ==
    /\ ~OutsideMulRange(fam, c)
    /\ \E b \in {7, 8, 9, 86, 127} :
          /\ b \in MulRange(fam)
          /\ b - 1 \notin MulRange(fam) \/ b + 1 \notin MulRange(fam)
          /\ \/ c.plln = b
             \/ FeatL(fam) /\ (c.pll_sai1_mul = b \/ c.pll_sai2_mul = b)

Ceiling(fam) ==
    CASE fam \in {"l4", "l4x6"} -> 80000000
      [] fam = "l5" -> 110000000
      [] fam = "g0" -> 64000000
      [] fam = "g4" -> 170000000

\* The frequencies validate_speeds compares with the ceiling.
CheckedFreqs(fam, c) ==
    {sysclk(c), hclk(c), apb1(c)} \cup (IF fam = "g0" THEN {} ELSE {apb2(c)})

C20_FrequencyCeiling ==
    (op = "validate_speeds" /\ result = "Unit") =>
        /\ (\E f \in CheckedFreqs(family, cfg) : f > Ceiling(family)) => ret = "NotValid"
        /\ ( /\ ~OutsideMulRange(family, cfg)
             /\ \A f \in CheckedFreqs(family, cfg) : f <= Ceiling(family) )
           => ret = "Valid"

C20_Witness ==
    /\ op = "validate_speeds"
    /\ result = "Unit"
    /\ ret = "Valid"
    /\ sysclk(cfg) = Ceiling(family)
    /\ cfg.input_src.kind = "Pll"

(***************************************************************************)
(* C21.  The wait-state code setup writes is the number of the family's    *)
(* breakpoints that hclk = sysclk / hclk_prescaler exceeds (L4: 16, 32,    *)
(* 48, 64 MHz; L5: 20, 40, 60, 80, 100 MHz; G0: 24, 48 MHz; G4: 34, 68,    *)
(* 102, 136 MHz): non-decreasing in hclk, hclk equal to a breakpoint gets  *)
(* the lower code, one Hz above gets the next code, and hclk above the     *)
(* highest breakpoint gets the family's maximum code.                      *)
(***************************************************************************)
Tiers(fam) ==
    CASE fam \in {"l4", "l4x6"} -> << 16000000, 32000000, 48000000, 64000000 >>
      [] fam = "l5" -> << 20000000, 40000000, 60000000, 80000000, 100000000 >>
      [] fam = "g0" -> << 24000000, 48000000 >>
      [] fam = "g4" -> << 34000000, 68000000, 102000000, 136000000 >>

TierCode(fam, f) == Cardinality({ k \in 1 .. Len(Tiers(fam)) : f > Tiers(fam)[k] })

C21_WaitStateTiers ==
    op = "setup" =>
        \A i \in 1 .. Len(log) :
            log[i].op = "fwrite" =>
                log[i].f.latency = TierCode(family, sysclk(cfg) \div cfg.hclk_prescaler)

C21_Witness ==
    /\ op = "setup"
    /\ result = "Ok"
    /\ \E k \in 1 .. Len(Tiers(family)) :
          /\ sysclk(cfg) \div cfg.hclk_prescaler = Tiers(family)[k] + 1
          /\ flash.latency = k
          /\ k = Len(Tiers(family))

(***************************************************************************)
(* C22.  apb1_timer() is apb1() when apb1_prescaler is Div1 and twice      *)
(* apb1() otherwise; apb2_timer() is related to apb2() and apb2_prescaler  *)
(* in the same way (prescaler 2 with a 40 MHz bus gives 80 MHz).           *)
(***************************************************************************)
C22_TimerClocks ==
    /\ (op = "apb1_timer" /\ result = "Unit") =>
           ret = (IF cfg.apb1_prescaler = 1 THEN 1 ELSE 2) * (hclk(cfg) \div cfg.apb1_prescaler)
    /\ (op = "apb2_timer" /\ result = "Unit") =>
           ret = (IF cfg.apb2_prescaler = 1 THEN 1 ELSE 2) * (hclk(cfg) \div cfg.apb2_prescaler)

C22_Witness ==
    /\ op = "apb1_timer"
    /\ result = "Unit"
    /\ cfg.apb1_prescaler = 2
    /\ apb1(cfg) = 40000000
    /\ ret = 80000000

(***************************************************************************)
(* C23.  The default Configuration of every family passes validate_speeds  *)
(* and its sysclk, hclk, apb1 and apb2 frequencies all equal               *)
(* 16_000_000 / 2 * plln / 2: 80 MHz on L4, 108 MHz on L5, 64 MHz on G0    *)
(* and 168 MHz on G4.                                                      *)
(***************************************************************************)
DefaultHz(fam) ==
    CASE fam \in {"l4", "l4x6"} -> 80000000
      [] fam = "l5" -> 108000000
      [] fam = "g0" -> 64000000
      [] fam = "g4" -> 168000000

C24_QueriesTotalAndPure ==
    (op \in Queries /\ ~OutsideMulRange(family, cfg0)
        /\ \A f \in CheckedFreqs(family, cfg0) : f <= Ceiling(family)) =>
        /\ result = "Unit"
        /\ ret \in Nat
        /\ cfg = cfg0
        /\ rcc = ResetRcc(family)
        /\ flash = ResetFlash

(***************************************************************************)
(* C25.  In setup with HSE as the configured source (directly or as the    *)
(* PLL feed), HSEBYP is written only after HSEON has been set and HSERDY   *)
(* read set, and the value written is the Configuration's hse_bypass.      *)
(***************************************************************************)
C25_BypassAfterHseReady ==
    (op = "setup" /\ "hse" \in SourceOscs(cfg)) =>
        \A i \in 1 .. Len(log) :
            Writes(log[i], "hsebyp") =>
                /\ \E j \in 1 .. i - 1 : WritesVal(log[j], "hseon", TRUE)
                /\ ReadyObservedBefore(i, "hse")
                /\ log[i].f.hsebyp = cfg.hse_bypass

C25_Witness ==
    /\ op = "setup"
    /\ result = "Ok"
    /\ cfg.input_src.kind = "Pll"
    /\ cfg.input_src.pll.kind = "Hse"
    /\ cfg.hse_bypass
    /\ rcc.hsebyp
    /\ \E i \in 1 .. Len(log) : WritesVal(log[i], "hsebyp", TRUE)

(***************************************************************************)
(* C26.  After a successful setup, whenever setup, change_msi_speed or     *)
(* re_select_input has returned, the wait-state code in FLASH_ACR is at    *)
(* least the code the family's breakpoints assign to the Configuration's   *)
(* current hclk.                                                           *)
(***************************************************************************)
C26_LatencyCoversHclk ==
    ( /\ op \in {"setup", "change_msi_speed", "re_select_input"}
      /\ result \in {"Ok", "Unit"}
      /\ setupOk ) =>
        flash.latency >= TierCode(family, sysclk(cfg) \div cfg.hclk_prescaler)

(***************************************************************************)
(* C29.  re_select_input writes only oscillator enable bits, PLLON and SW: *)
(* it never writes FLASH_ACR, the PLL source, multiplier or dividers, the  *)
(* PLL output enables, the prescalers or the MSI range, never clears an    *)
(* oscillator enable bit, and never modifies the Configuration.            *)
(***************************************************************************)
OscEnableBits == {"msion", "hsion", "hseon", "lsion", "lseon"}

C29_ReSelectFrame ==
    op = "re_select_input" =>
        /\ cfg = cfg0
        /\ flash = flash0
        /\ \A i \in 1 .. Len(log) :
              /\ log[i].op \in {"write", "poll"}
              /\ log[i].op = "write" =>
                    /\ DOMAIN log[i].f \subseteq OscEnableBits \cup {"pllon", "sw"}
                    /\ \A b \in OscEnableBits : ~WritesVal(log[i], b, FALSE)
        /\ \A fld \in PllFields \cup PllOutputEnables \cup {"hpre", "ppre1", "ppre2", "msirange"} :
              rcc[fld] = rcc0[fld]

C29_Witness ==
    /\ op = "re_select_input"
    /\ result = "Unit"
    /\ \E i \in 1 .. Len(log) : Writes(log[i], "sw")
    /\ \E i \in 1 .. Len(log) : WritesVal(log[i], "pllon", TRUE)
    /\ \E i \in 1 .. Len(log) : WritesVal(log[i], "hseon", TRUE)

(***************************************************************************)
(* C30.  A Configuration that passes validate_speeds still passes it after *)
(* change_msi_speed has returned, whatever the range: the new sysclk is    *)
(* the range's frequency, at most 48 MHz, and no field other than          *)
(* input_src has changed.                                                  *)
(***************************************************************************)
C30_ChangeMsiSpeedKeepsValid ==
    ( /\ op = "change_msi_speed"
      /\ result = "Unit"
      /\ validate_speeds(family, cfg0) = "Valid" ) =>
        /\ validate_speeds(family, cfg) = "Valid"
        /\ sysclk(cfg) <= 48000000
        /\ sysclk(cfg) <= Ceiling(family)
        /\ cfg = [cfg0 EXCEPT !.input_src = cfg.input_src]

C30_Witness ==
    /\ op = "change_msi_speed"
    /\ result = "Unit"
    /\ validate_speeds(family, cfg0) = "Valid"
    /\ cfg0.input_src = InputSrc_Msi(R4M)
    /\ sysclk(cfg) = 48000000

(***************************************************************************)
(* C27.  For every Configuration whose multipliers are in range and whose  *)
(* HSE frequency is at most 48 MHz, the product floor(input / m) * n does  *)
(* not exceed 2^32 - 1, and validate_speeds gives the verdict of the same  *)
(* check in unbounded arithmetic.                                          *)
(***************************************************************************)
\* The Configuration names no HSE frequency above 48 MHz.
HseAtMost48M(c) ==
    /\ c.input_src.kind = "Hse" => c.input_src.val <= 48000000
    /\ (c.input_src.kind = "Pll" /\ c.input_src.pll.kind = "Hse") => c.input_src.pll.val <= 48000000

\* q * n is at most 2^32 - 1.
ProductFits(q, n) == (q \div 65536) * n + ((q % 65536) * n) \div 65536 < 65536

\* sysclk in unbounded arithmetic exceeds lim.
ExactSysclkExceeds(c, lim) ==
    IF c.input_src.kind = "Pll"
    THEN LET x == ExactMulDiv(NominalFreq(c.input_src.pll) \div c.pllm, c.plln, c.pllr)
         IN  \/ x[1] > Limbs(lim)[1]
             \/ x[1] = Limbs(lim)[1] /\ x[2] > Limbs(lim)[2]
    ELSE NominalFreq(c.input_src) > lim

C27_NoOverflowInRange ==
    ( /\ op = "validate_speeds"
      /\ ~OutsideMulRange(family, cfg)
      /\ HseAtMost48M(cfg) ) =>
        /\ cfg.input_src.kind = "Pll" =>
              ProductFits(NominalFreq(cfg.input_src.pll) \div cfg.pllm, cfg.plln)
        /\ result = "Unit"
        /\ ret = (IF ExactSysclkExceeds(cfg, Ceiling(family)) THEN "NotValid" ELSE "Valid")

(***************************************************************************)
(* C28.  hclk() <= sysclk(), apb1() <= hclk() and apb2() <= hclk(); so     *)
(* validate_speeds returns Valid exactly when every multiplier is in the   *)
(* family's range and sysclk() is at or below the ceiling.                 *)
(***************************************************************************)
C28_BusChecksRedundant ==
    /\ (op = "hclk" /\ result = "Unit") => ret <= sysclk(cfg)
    /\ (op \in {"apb1", "apb2"} /\ result = "Unit") => ret <= hclk(cfg)
    /\ (op = "validate_speeds" /\ result = "Unit") =>
           (ret = "Valid" <=> (~OutsideMulRange(family, cfg) /\ sysclk(cfg) <= Ceiling(family)))

C28_Witness ==
    /\ op = "validate_speeds"
    /\ result = "Unit"
    /\ ret = "NotValid"
    /\ ~OutsideMulRange(family, cfg)
    /\ sysclk(cfg) > Ceiling(family)
    /\ hclk(cfg) <= Ceiling(family)

=============================================================================
